---- MODULE Spec2Model ----
(***************************************************************************)
(* Model of stdio-utils-rs (src/src/lib.rs): the number parser as_number   *)
(* and the summation entry points sum and sum_strings.                     *)
(*                                                                         *)
(* Text is a sequence of one-character strings.  Number is isize; its      *)
(* width is scaled down to NumberBits bits so that the range limits and    *)
(* the overflow of the running total are reached by short inputs.  A run   *)
(* of sum is unfolded into the steps of the iterator chain                 *)
(* lines.map(closure).sum(): pull an item, apply the closure, then either  *)
(* short-circuit on an Err or add the value to the accumulator.            *)
(***************************************************************************)
EXTENDS Integers, Sequences, FiniteSets

VARIABLES
    build,      \* "debug" (overflow checks on) or "release" (off)
    pc,         \* position of the running call
    entry,      \* entry point of the running call
    arg,        \* argument of the running call
    lines,      \* items of the iterator handed to sum
    pos,        \* how many items the iterator has yielded
    item,       \* the item pulled and not yet consumed by the closure
    mapped,     \* the closure's result for the pulled item
    total,      \* accumulator of the fold
    result,     \* what the call returned
    pulled,     \* indices of the items pulled, in order of pulling
    parsed,     \* indices of the items handed to as_number, in order
    added,      \* indices of the items added to the accumulator, in order
    ref,        \* a materialized sequence of text lines that is summed again
    seen,       \* first outcome of each entry point on ref
    between,    \* a call on another sequence ended after a call on ref
    message     \* the displayed text of the returned ParsingError

vars == <<build, pc, entry, arg, lines, pos, item, mapped, total, result,
          pulled, parsed, added, ref, seen, between, message>>

-----------------------------------------------------------------------------
(* Bounds *)

NumberBits == 3         \* width of Number in the model
MaxStrLen == 4          \* longest text handed directly to as_number
MaxLines == 3           \* longest sequence handed to sum / sum_strings
MaxReplayLines == 3     \* longest materialized sequence that is summed twice
MaxBetweenLines == 1    \* longest sequence of a call made in between

-----------------------------------------------------------------------------
(* Text *)

WhiteSpace == {" ", "\t"}
Signs == {"+", "-"}
DigitChars == <<"0", "1", "2", "3", "4", "5", "6", "7", "8", "9">>

\* the characters texts are built from
Chars == {" ", "\t", "+", "-", "0", "1", "3", "4", "$"}

Strings(n) == UNION {[1..k -> Chars] : k \in 0..n}

IsDigit(c) == \E d \in 1..10 : DigitChars[d] = c

to_digit(c) == (CHOOSE d \in 1..10 : DigitChars[d] = c) - 1

RECURSIVE trim_start(_)
trim_start(s) ==
    IF s # <<>> /\ Head(s) \in WhiteSpace THEN trim_start(Tail(s)) ELSE s

RECURSIVE trim_end(_)
trim_end(s) ==
    IF s # <<>> /\ s[Len(s)] \in WhiteSpace
    THEN trim_end(SubSeq(s, 1, Len(s) - 1))
    ELSE s

trim(s) == trim_end(trim_start(s))

-----------------------------------------------------------------------------
(* Number = isize *)

RECURSIVE Pow2(_)
Pow2(n) == IF n = 0 THEN 1 ELSE 2 * Pow2(n - 1)

NumberMin == 0 - Pow2(NumberBits - 1)
NumberMax == Pow2(NumberBits - 1) - 1
InRange(n) == NumberMin <= n /\ n <= NumberMax

\* two's complement wrap-around of an out-of-range value
wrapping(n) == ((n - NumberMin) % Pow2(NumberBits)) + NumberMin

-----------------------------------------------------------------------------
(* Values *)

Ok(v) == [tag |-> "Ok", value |-> v]
ParseIntError(k) == [kind |-> k]
ParsingError(s, e) == [input |-> s, error |-> e]
Err(e) == [tag |-> "Err", error |-> e]

InputErrorCase(e) == [tag |-> "InputError", error |-> e]
ParsingErrorCase(e) == [tag |-> "ParsingError", error |-> e]

\* a call that did not return: "attempt to add with overflow"
Panic == [tag |-> "Panic"]
None == [tag |-> "None"]

\* From<io::Error> for ApplicationError
from_io_error(e) == InputErrorCase(e)

\* mutant: the parsing failure is filed under the wrong variant
from_parsing_error_as_input(e) == InputErrorCase(e)

\* From<ParsingError> for ApplicationError
from_parsing_error(e) == ParsingErrorCase(e)

-----------------------------------------------------------------------------
(* as_number *)

\* digits of str::parse::<isize>, accumulated with checked arithmetic;
\* a negative number is accumulated downwards so that NumberMin parses
RECURSIVE parse_digits(_, _, _)
parse_digits(digits, acc, negative) ==
    IF digits = <<>> THEN Ok(acc)
    ELSE IF ~IsDigit(Head(digits)) THEN Err(ParseIntError("InvalidDigit"))
    ELSE LET overflow == IF negative THEN "NegOverflow" ELSE "PosOverflow"
             x == to_digit(Head(digits))
             mul == acc * 10
             next == IF negative THEN mul - x ELSE mul + x
         IN  IF ~InRange(mul) \/ ~InRange(next)
             THEN Err(ParseIntError(overflow))
             ELSE parse_digits(Tail(digits), next, negative)

\* mutant: a lone sign is taken for a number without digits
parse_lone_sign(src) ==
    IF src = <<>> THEN Err(ParseIntError("Empty"))
    ELSE IF src[1] = "-" THEN parse_digits(Tail(src), 0, TRUE)
    ELSE IF src[1] = "+" THEN parse_digits(Tail(src), 0, FALSE)
    ELSE parse_digits(src, 0, FALSE)

\* str::parse::<isize>
parse(src) ==
    IF src = <<>> THEN Err(ParseIntError("Empty"))
    ELSE IF Len(src) = 1 /\ src[1] \in Signs
         THEN Err(ParseIntError("InvalidDigit"))
    ELSE IF src[1] = "-" THEN parse_digits(Tail(src), 0, TRUE)
    ELSE IF src[1] = "+" THEN parse_digits(Tail(src), 0, FALSE)
    ELSE parse_digits(src, 0, FALSE)

\* mutant: the line is parsed untrimmed
parse_input_untrimmed(line) == line

\* the text as_number hands to parse
parse_input(line) == trim(line)

\* mutant: the error keeps the trimmed text
error_input_trimmed(line) == trim(line)

\* the text as_number stores in the ParsingError
error_input(line) == line

as_number(line) ==
    LET r == parse(parse_input(line))
    IN  IF r.tag = "Ok" THEN r
        ELSE Err(ParsingError(error_input(line), r.error))

-----------------------------------------------------------------------------
(* Display for ParsingError *)

KindName(k) ==
    CASE k = "Empty" -> <<"E", "m", "p", "t", "y">>
      [] k = "InvalidDigit" ->
            <<"I", "n", "v", "a", "l", "i", "d", "D", "i", "g", "i", "t">>
      [] k = "PosOverflow" ->
            <<"P", "o", "s", "O", "v", "e", "r", "f", "l", "o", "w">>
      [] k = "NegOverflow" ->
            <<"N", "e", "g", "O", "v", "e", "r", "f", "l", "o", "w">>

\* {:?} of num::ParseIntError
debug_fmt(e) ==
    <<"P", "a", "r", "s", "e", "I", "n", "t", "E", "r", "r", "o", "r", " ",
      "{", " ", "k", "i", "n", "d", ":", " ">>
    \o KindName(e.kind) \o <<" ", "}">>

\* the text written for {} of self.input
display_input(e) == e.input

\* "Could not parse \"{}\" to number: {:?}"
fmt(e) ==
    <<"C", "o", "u", "l", "d", " ", "n", "o", "t", " ", "p", "a", "r", "s",
      "e", " ", "\"">>
    \o display_input(e)
    \o <<"\"", " ", "t", "o", " ", "n", "u", "m", "b", "e", "r", ":", " ">>
    \o debug_fmt(e.error)

to_string(e) == fmt(e)

-----------------------------------------------------------------------------
(* Inputs *)

IoErrors == {"Other", "UnexpectedEof"}

\* the lines the summed sequences are built from
LinePool ==
    { <<"3">>, <<"1">>, <<"-", "1">>, <<"-", "4">>, <<"\t", "1", " ">>,
      <<"4">>, <<" ", "$">>, <<>> }

\* the lines of the sequences that are summed repeatedly
ReplayPool == { <<"3">>, <<" ", "$">>, <<>> }

OkLine(s) == Ok(s)

Items == {OkLine(s) : s \in LinePool} \cup {Err(e) : e \in IoErrors}

\* the items of the calls made between two calls on the same sequence
BetweenItems == {OkLine(s) : s \in ReplayPool} \cup {Err(e) : e \in IoErrors}

SeqsUpTo(S, n) == UNION {[1..k -> S] : k \in 0..n}

-----------------------------------------------------------------------------
(* sum and sum_strings, step by step *)

\* mutant: the accumulator survives from the previous call
InitialTotal_stale == total

\* the accumulator the fold starts from
InitialTotal == 0

\* mutant: the accumulator is overwritten instead of added to
add_overwrite(a, b) == b

\* |a, b| a + b, before the overflow check
add(a, b) == a + b

\* mutant: empty fragments are dropped
wrap_nonempty(strings) ==
    LET kept == SelectSeq(strings, LAMBDA x : x # <<>>)
    IN  [i \in 1..Len(kept) |-> OkLine(kept[i])]

\* strings.map(|s| Ok(String::from(s)))
wrap(strings) == [i \in 1..Len(strings) |-> OkLine(strings[i])]

\* |line| Ok(as_number(&line?)?)
closure(line) ==
    IF line.tag = "Err" THEN Err(from_io_error(line.error))
    ELSE LET r == as_number(line.value)
         IN  IF r.tag = "Ok" THEN Ok(r.value)
             ELSE Err(from_parsing_error(r.error))

\* mutant: as_number runs before the acquisition failure is looked at
closure_parses_first(line) == TRUE

\* whether the closure hands the item to as_number
closure_parses(line) == line.tag = "Ok"

Start(e, a, ls) ==
    /\ entry' = e
    /\ arg' = a
    /\ lines' = ls
    /\ pos' = 0
    /\ item' = None
    /\ mapped' = None
    /\ total' = InitialTotal
    /\ result' = None
    /\ pulled' = <<>>
    /\ parsed' = <<>>
    /\ added' = <<>>
    /\ message' = <<>>
    /\ pc' = "next"

\* a direct call of as_number
CallAsNumber ==
    /\ pc = "idle"
    /\ \E s \in Strings(MaxStrLen) :
          /\ entry' = "as_number"
          /\ arg' = s
          /\ result' = as_number(s)
    /\ pc' = "done"
    /\ UNCHANGED <<build, lines, pos, item, mapped, total, pulled, parsed,
                   added, ref, seen, between, message>>

CallSum ==
    /\ pc = "idle"
    /\ \E xs \in SeqsUpTo(Items, MaxLines) : Start("sum", xs, xs)
    /\ UNCHANGED <<build, ref, seen, between>>

CallSumStrings ==
    /\ pc = "idle"
    /\ \E xs \in SeqsUpTo(LinePool, MaxLines) :
          Start("sum_strings", xs, wrap(xs))
    /\ UNCHANGED <<build, ref, seen, between>>

\* Iterator::next yields the next item
Pull ==
    /\ pc = "next"
    /\ pos < Len(lines)
    /\ item' = lines[pos + 1]
    /\ pos' = pos + 1
    /\ pulled' = Append(pulled, pos + 1)
    /\ pc' = "map"
    /\ UNCHANGED <<build, entry, arg, lines, mapped, total, result, parsed,
                   added, ref, seen, between, message>>

\* Iterator::next yields nothing: the fold ends and its value is returned
Exhausted ==
    /\ pc = "next"
    /\ pos >= Len(lines)
    /\ result' = Ok(total)
    /\ pc' = "done"
    /\ UNCHANGED <<build, entry, arg, lines, pos, item, mapped, total,
                   pulled, parsed, added, ref, seen, between, message>>

\* the closure of map is applied to the pulled item
Map ==
    /\ pc = "map"
    /\ mapped' = closure(item)
    /\ parsed' = IF closure_parses(item) THEN Append(parsed, pos) ELSE parsed
    /\ item' = None
    /\ pc' = "shunt"
    /\ UNCHANGED <<build, entry, arg, lines, pos, total, result, pulled,
                   added, ref, seen, between, message>>

\* mutant: the Err is remembered but the iteration goes on
ShortCircuit_late ==
    /\ pc = "shunt"
    /\ mapped.tag = "Err"
    /\ result' = mapped
    /\ pc' = IF pos < Len(lines) THEN "next" ELSE "done"
    /\ UNCHANGED <<build, entry, arg, lines, pos, item, mapped, total,
                   pulled, parsed, added, ref, seen, between, message>>

\* Sum for Result: the first Err ends the iteration and is returned
ShortCircuit ==
    /\ pc = "shunt"
    /\ mapped.tag = "Err"
    /\ result' = mapped
    /\ pc' = "done"
    /\ UNCHANGED <<build, entry, arg, lines, pos, item, mapped, total,
                   pulled, parsed, added, ref, seen, between, message>>

\* Sum for isize: a + b, with the overflow behaviour of the build
Add ==
    /\ pc = "shunt"
    /\ mapped.tag = "Ok"
    /\ LET s == add(total, mapped.value)
       IN  IF InRange(s)
           THEN /\ total' = s
                /\ added' = Append(added, pos)
                /\ pc' = "next"
                /\ UNCHANGED result
           ELSE IF build = "debug"
           THEN /\ result' = Panic
                /\ pc' = "done"
                /\ UNCHANGED <<total, added>>
           ELSE /\ total' = wrapping(s)
                /\ added' = Append(added, pos)
                /\ pc' = "next"
                /\ UNCHANGED result
    /\ UNCHANGED <<build, entry, arg, lines, pos, item, mapped, pulled,
                   parsed, ref, seen, between, message>>

\* the ParsingError a finished call returned, if it returned one
returned_parsing_error ==
    IF result.tag # "Err" THEN None
    ELSE IF entry = "as_number" THEN Ok(result.error)
    ELSE IF result.error.tag = "ParsingError" THEN Ok(result.error.error)
    ELSE None

\* the caller renders the returned ParsingError: err.to_string()
ToString ==
    /\ pc = "done"
    /\ returned_parsing_error # None
    /\ message' = to_string(returned_parsing_error.value)
    /\ pc' = "shown"
    /\ UNCHANGED <<build, entry, arg, lines, pos, item, mapped, total,
                   result, pulled, parsed, added, ref, seen, between>>

Init ==
    /\ build \in {"debug", "release"}
    /\ pc = "idle"
    /\ entry = "none"
    /\ arg = <<>>
    /\ lines = <<>>
    /\ pos = 0
    /\ item = None
    /\ mapped = None
    /\ total = 0
    /\ result = None
    /\ pulled = <<>>
    /\ parsed = <<>>
    /\ added = <<>>
    /\ ref = <<>>
    /\ seen = [e \in {"sum", "sum_strings"} |-> None]
    /\ between = FALSE
    /\ message = <<>>

Step == Pull \/ Exhausted \/ Map \/ ShortCircuit \/ Add

Next ==
    \/ CallAsNumber
    \/ CallSum
    \/ CallSumStrings
    \/ Pull
    \/ Exhausted
    \/ Map
    \/ ShortCircuit
    \/ Add
    \/ ToString

Spec == Init /\ [][Next]_vars

\* a call, once made, runs to its end: the code is one synchronous thread
FairSpec == Spec /\ WF_vars(Step)

-----------------------------------------------------------------------------
(* The same materialized sequence summed repeatedly *)

EntryPoints == {"sum", "sum_strings"}

\* the text of each line of a materialized sequence
texts(items) == [i \in 1..Len(items) |-> items[i].value]

\* the running call sums the sequence ref
OnRef ==
    \/ entry = "sum" /\ arg = ref
    \/ entry = "sum_strings" /\ arg = texts(ref)

ReplaySum ==
    /\ pc = "idle"
    /\ Start("sum", ref, ref)
    /\ UNCHANGED <<build, ref, seen, between>>

ReplaySumStrings ==
    /\ pc = "idle"
    /\ Start("sum_strings", texts(ref), wrap(texts(ref)))
    /\ UNCHANGED <<build, ref, seen, between>>

BetweenSum ==
    /\ pc = "idle"
    /\ \E xs \in SeqsUpTo(BetweenItems, MaxBetweenLines) :
          Start("sum", xs, xs)
    /\ UNCHANGED <<build, ref, seen, between>>

\* the call is over; its outcome is kept if it is the first one on ref
Return ==
    /\ pc = "done"
    /\ pc' = "idle"
    /\ seen' = IF OnRef /\ seen[entry] = None
               THEN [seen EXCEPT ![entry] = result]
               ELSE seen
    /\ between' = (between \/ (~OnRef /\ \E e \in EntryPoints : seen[e] # None))
    /\ UNCHANGED <<build, entry, arg, lines, pos, item, mapped, total,
                   result, pulled, parsed, added, ref, message>>

InitReplay ==
    /\ build \in {"debug", "release"}
    /\ pc = "idle"
    /\ entry = "none"
    /\ arg = <<>>
    /\ lines = <<>>
    /\ pos = 0
    /\ item = None
    /\ mapped = None
    /\ total = 0
    /\ result = None
    /\ pulled = <<>>
    /\ parsed = <<>>
    /\ added = <<>>
    /\ ref \in SeqsUpTo({OkLine(s) : s \in ReplayPool}, MaxReplayLines)
    /\ seen = [e \in EntryPoints |-> None]
    /\ between = FALSE
    /\ message = <<>>

NextReplay ==
    \/ ReplaySum
    \/ ReplaySumStrings
    \/ BetweenSum
    \/ Pull
    \/ Exhausted
    \/ Map
    \/ ShortCircuit
    \/ Add
    \/ Return

SpecReplay == InitReplay /\ [][NextReplay]_vars

-----------------------------------------------------------------------------
(* Vocabulary of the properties *)

IsSum == entry \in EntryPoints
Done == pc \in {"done", "shown"}

\* the text with its leading and trailing whitespace removed
Stripped(s) ==
    LET keep == {i \in 1..Len(s) : s[i] \notin WhiteSpace}
    IN  IF keep = {} THEN <<>>
        ELSE SubSeq(s, CHOOSE i \in keep : \A j \in keep : i <= j,
                       CHOOSE i \in keep : \A j \in keep : j <= i)

\* the text after an optional single sign
Body(t) == IF t # <<>> /\ t[1] \in Signs THEN Tail(t) ELSE t

\* an optional single sign followed by one or more decimal digits
WellFormed(t) ==
    /\ Body(t) # <<>>
    /\ \A i \in 1..Len(Body(t)) : IsDigit(Body(t)[i])

RECURSIVE Decimal(_)
Decimal(ds) ==
    IF ds = <<>> THEN 0
    ELSE 10 * Decimal(SubSeq(ds, 1, Len(ds) - 1)) + to_digit(ds[Len(ds)])

\* the integer a well-formed text denotes
Denoted(t) == IF t[1] = "-" THEN 0 - Decimal(Body(t)) ELSE Decimal(Body(t))

Failing(it) == it.tag = "Err" \/ as_number(it.value).tag = "Err"
HasFailing(ls) == \E k \in 1..Len(ls) : Failing(ls[k])
FirstFailing(ls) ==
    CHOOSE k \in 1..Len(ls) : Failing(ls[k]) /\ \A j \in 1..(k - 1) : ~Failing(ls[j])
AllValid(ls) == ~HasFailing(ls)

\* exact sum of the values of the first n lines, all of which parse
RECURSIVE PrefixSum(_, _)
PrefixSum(ls, n) ==
    IF n = 0 THEN 0 ELSE PrefixSum(ls, n - 1) + as_number(ls[n].value).value

\* the running total stays in range over the first n lines
FitsUpTo(ls, n) == \A m \in 0..n : InRange(PrefixSum(ls, m))

\* the Application Error the item stands for
ErrorOf(it) ==
    IF it.tag = "Err" THEN InputErrorCase(it.error)
    ELSE ParsingErrorCase(as_number(it.value).error)

Contains(m, s) == \E i \in 0..(Len(m) - Len(s)) : SubSeq(m, i + 1, i + Len(s)) = s
Occurs(c, m) == \E i \in 1..Len(m) : m[i] = c

\* characters of texts that the fixed part of the message never has
InputLike == Chars \ {" "}

\* the fragments as successfully acquired lines
AsLines(xs) == [i \in 1..Len(xs) |-> Ok(xs[i])]

Count(x, q) == Cardinality({i \in 1..Len(q) : q[i] = x})

-----------------------------------------------------------------------------
(* Properties *)

\* C1 as stated: if all items are lines that parse and their exact sum fits
\* Number, sum returns that sum.
C1_AsStated ==
    (Done /\ IsSum /\ AllValid(lines) /\ InRange(PrefixSum(lines, Len(lines))))
        => result = Ok(PrefixSum(lines, Len(lines)))

\* C1 amended: if all items are lines that parse and every running total of
\* the sequence fits Number, sum returns the arithmetic sum of the parsed
\* values; the empty sequence gives 0, a single item gives its value.
C1_SumOfValidLines ==
    (Done /\ IsSum /\ AllValid(lines) /\ FitsUpTo(lines, Len(lines)))
        => result = Ok(PrefixSum(lines, Len(lines)))

C1_Witness ==
    /\ Done /\ IsSum /\ AllValid(lines) /\ FitsUpTo(lines, Len(lines))
    /\ Len(lines) >= 2
    /\ result.tag = "Ok" /\ result.value # 0

\* C2: once a failing item (an acquisition failure or a line that does not
\* parse) has been pulled, no further item is pulled.
C2_ShortCircuit ==
    [][(\E i \in 1..Len(pulled) : Failing(lines[pulled[i]]))
          => pulled' = pulled]_vars

C2_Witness ==
    /\ Done /\ IsSum
    /\ pos >= 1 /\ pos < Len(lines)
    /\ Failing(lines[pos])
    /\ Len(pulled) = pos

\* C3 as stated: with a failing item in the sequence, sum returns the
\* Application Error of the earliest failing item.
C3_AsStated ==
    (Done /\ IsSum /\ HasFailing(lines))
        => result = Err(ErrorOf(lines[FirstFailing(lines)]))

\* C3 amended: with a failing item in the sequence, and the running total of
\* the lines before the earliest failing item in range, sum returns the
\* Application Error of that item: InputError with the same failure, or
\* ParsingError with the Parsing Error of that line.
C3_FirstFailureWins ==
    (Done /\ IsSum /\ HasFailing(lines)
          /\ FitsUpTo(lines, FirstFailing(lines) - 1))
        => result = Err(ErrorOf(lines[FirstFailing(lines)]))

C3_Witness ==
    /\ Done /\ IsSum /\ HasFailing(lines)
    /\ FirstFailing(lines) >= 2 /\ FirstFailing(lines) < Len(lines)
    /\ lines[FirstFailing(lines)].tag = "Ok"
    /\ Failing(lines[Len(lines)]) /\ lines[Len(lines)].tag = "Err"
    /\ result.tag = "Err" /\ result.error.tag = "ParsingError"

\* C4: if the exact running sum of valid lines leaves the range of Number at
\* some step, sum does not return success.
C4_NoSilentWrap ==
    (Done /\ IsSum /\ AllValid(lines) /\ ~FitsUpTo(lines, Len(lines)))
        => result.tag # "Ok"

\* C5: a text that, stripped of surrounding whitespace, is an optional sign
\* followed by digits and denotes a value in range parses to that value.
C5_ParsesValidDecimal ==
    (Done /\ entry = "as_number" /\ WellFormed(Stripped(arg))
          /\ InRange(Denoted(Stripped(arg))))
        => result = Ok(Denoted(Stripped(arg)))

C5_Witness ==
    /\ Done /\ entry = "as_number"
    /\ WellFormed(Stripped(arg))
    /\ arg # Stripped(arg) /\ Stripped(arg)[1] = "-"
    /\ result = Ok(NumberMin)

\* C6: as_number fails with a Parsing Error on empty or whitespace-only text
\* (reason Empty), on a lone sign or any non-digit after the optional sign,
\* and on a well-formed text out of range (reason PosOverflow, NegOverflow).
C6_RejectsInvalid ==
    (Done /\ entry = "as_number") =>
        LET t == Stripped(arg)
            reason == result.error.error.kind
        IN  /\ t = <<>> => (result.tag = "Err" /\ reason = "Empty")
            /\ (t # <<>> /\ ~WellFormed(t)) =>
                  /\ result.tag = "Err"
                  /\ reason \in {"InvalidDigit", "PosOverflow", "NegOverflow"}
                  /\ (Body(t) = <<>> \/ ~IsDigit(Body(t)[1]))
                        => reason = "InvalidDigit"
            /\ (WellFormed(t) /\ ~InRange(Denoted(t))) =>
                  /\ result.tag = "Err"
                  /\ reason = IF t[1] = "-" THEN "NegOverflow"
                                            ELSE "PosOverflow"

C6_Witness ==
    /\ Done /\ entry = "as_number"
    /\ Stripped(arg) \in {<<"-">>, <<"+", "-", "1">>, <<"1", " ", "1">>}
    /\ arg # Stripped(arg)
    /\ result.tag = "Err" /\ result.error.error.kind = "InvalidDigit"

\* C7: a returned Parsing Error stores the original, untrimmed text, and the
\* displayed message contains that text and no input-like character that is
\* not in it.
C7_KeepsOriginalInput ==
    /\ (Done /\ returned_parsing_error # None) =>
          returned_parsing_error.value.input =
              IF entry = "as_number" THEN arg
              ELSE IF entry = "sum" THEN arg[pos].value
              ELSE arg[pos]
    /\ pc = "shown" =>
          LET s == returned_parsing_error.value.input
          IN  /\ Contains(message, <<"\"">> \o s \o <<"\"">>)
              /\ \A c \in InputLike : Occurs(c, message) => Occurs(c, s)

C7_Witness ==
    /\ pc = "shown" /\ IsSum /\ pos >= 2
    /\ returned_parsing_error.value.input = <<" ", "$">>
    /\ ~Occurs("1", message)

\* C8 as stated: sum_strings returns what sum returns on the wrapped
\* fragments, never returns InputError, and fails, with ParsingError,
\* exactly when some fragment does not parse.
C8_AsStated ==
    /\ (pc = "done" /\ OnRef /\ \A e \in EntryPoints : seen[e] # None)
          => (seen["sum"] = seen["sum_strings"] /\ result = seen["sum"])
    /\ (pc = "done" /\ entry = "sum_strings") =>
          /\ result.tag = "Err" => result.error.tag = "ParsingError"
          /\ result.tag # "Ok" <=> HasFailing(AsLines(arg))

\* C8 amended: sum_strings returns what sum returns on the wrapped
\* fragments and never returns InputError; it returns a ParsingError only
\* if some fragment does not parse, and does so whenever one does not parse
\* and the running total of the fragments before it stays in range.
C8_SumStringsAsSum ==
    /\ (pc = "done" /\ OnRef /\ \A e \in EntryPoints : seen[e] # None)
          => (seen["sum"] = seen["sum_strings"] /\ result = seen["sum"])
    /\ (pc = "done" /\ entry = "sum_strings") =>
          /\ result.tag = "Err" =>
                (result.error.tag = "ParsingError" /\ HasFailing(AsLines(arg)))
          /\ HasFailing(AsLines(arg)) =>
                LET k == FirstFailing(AsLines(arg))
                IN  FitsUpTo(AsLines(arg), k - 1)
                      => result = Err(ErrorOf(AsLines(arg)[k]))

C8_Witness ==
    /\ pc = "done" /\ entry = "sum_strings" /\ OnRef
    /\ seen["sum"] # None /\ seen["sum_strings"] # None
    /\ Len(arg) >= 2 /\ arg[Len(arg)] = <<>>
    /\ result.tag = "Err"

\* C9: summing the same materialized sequence of lines again through the
\* same entry point gives the outcome of the first time, whatever was
\* summed in between.
C9_Deterministic ==
    (pc = "done" /\ OnRef /\ seen[entry] # None) => result = seen[entry]

C9_Witness ==
    /\ pc = "done" /\ OnRef /\ seen[entry] # None
    /\ between /\ \A e \in EntryPoints \ {entry} : seen[e] = None
    /\ Len(ref) >= 2
    /\ result.tag = "Ok" /\ result.value # 0

\* the order of pulling, parsing and adding within a run of sum
C10_Order ==
    IsSum =>
        /\ pulled = [i \in 1..pos |-> i]
        /\ pos <= Len(lines)
        /\ \A i \in 1..(pos - 1) : Count(i, parsed) = 1 /\ Count(i, added) = 1
        /\ \A i \in 1..pos : lines[i].tag = "Err" => Count(i, parsed) = 0
        /\ \A i \in 1..pos :
              (lines[i].tag = "Ok" /\ (i < pos \/ pc # "map"))
                  => Count(i, parsed) = 1
        /\ \A i \in 1..Len(parsed) : parsed[i] \in 1..pos
        /\ \A i \in 1..Len(added) : added[i] \in 1..pos
        /\ (Done /\ result.tag = "Ok") => pos = Len(lines)

\* C10: items are pulled in order, one at a time and at most once, each only
\* after the one before was parsed and added; as_number runs once per line
\* pulled and never for an acquisition failure; every run ends, and a
\* successful one has pulled all items.
C10_OrderedAndTerminates == [](C10_Order) /\ (IsSum ~> Done)

C10_Witness ==
    /\ Done /\ IsSum
    /\ pos = Len(lines) /\ pos >= 3
    /\ lines[pos].tag = "Err"
    /\ Len(parsed) = pos - 1 /\ Len(added) = pos - 1

====
